---- MODULE Spec2Model ----
(***************************************************************************)
(* Model of Poisson_Neural_Spike_Trains.ipynb: poissonSpikeGen and events. *)
(*                                                                         *)
(* Representation of the reals.  Every real quantity x of the program      *)
(* (times, uniform draws, the product fr*dt) is held as the integer        *)
(* x * TicksPerSecond, one tick being a quarter of a bin.  fr itself is in *)
(* Hz and is not scaled.  The arithmetic on these values (division,        *)
(* round, ceil) is exact rational arithmetic; on the inputs enumerated     *)
(* here the IEEE doubles of the program give the same results.             *)
(***************************************************************************)
EXTENDS Integers, Sequences, FiniteSets

\* ---------------------------------------------------------------- bounds
MaxTrials == 2          \* nTrials ranges over 1..MaxTrials
MaxTSim == 16           \* tSim ranges over 1..MaxTSim ticks (0.25 ms .. 4 ms)
MaxRows == 2            \* rows of a matrix handed to events directly
MaxCols == 3            \* columns of a matrix handed to events directly

\* ------------------------------------------------------------- constants
\* dt = 1/1000 s, in ticks
dt == 4
TicksPerSecond == 1000 * dt

\* firing rates offered to the call, in Hz (0 is the fr = 0 case)
Rates == {0, 500, 1000}
\* outcomes of one uniform draw in [0,1), in ticks: 0.0 and 0.5
DrawValues == {0, TicksPerSecond \div 2}

\* ------------------------------------------------------- pure functions
\* a/b rounded towards +infinity, b > 0
Ceil(a, b) == -((-a) \div b)

\* Python 3 round(a/b): nearest integer, ties to the even integer (b > 0)
RoundHalfUp(a, b) == (2 * a + b) \div (2 * b)
Round(a, b) ==
    LET q == a \div b
        r == a - q * b
    IN  IF 2 * r < b THEN q
        ELSE IF 2 * r > b THEN q + 1
        ELSE IF q % 2 = 0 THEN q ELSE q + 1

\* np.random.random(...) < fr*dt, for one cell whose draw is u
FiredLeq(u, rate) == u <= rate * dt
Fired(u, rate) == u < rate * dt

\* np.random.random([rows, cols]): the number of values it takes from
\* the random source, one per cell of the matrix it returns
DrawsTakenPerRow(rows, cols) == rows
DrawsTaken(rows, cols) == rows * cols

\* np.arange(start, stop, step): its length and its k-th element
ARangeLen(start, stop, step) ==
    IF stop > start THEN Ceil(stop - start, step) ELSE 0
ARangeAtHalfStep(start, step, k) == start + k * (step \div 2)
ARangeAtFromStep(start, step, k) == start + (k + 1) * step
ARangeAt(start, step, k) == start + k * step
ARange(start, stop, step) ==
    [k \in 0..(ARangeLen(start, stop, step) - 1) |-> ARangeAt(start, step, k)]

\* the stop value handed to np.arange for the time vector
TVecStopPlus(t) == t + dt
TVecStop(t) == t - dt

\* v[idx] on a one-dimensional array of length n: the position read
\* (negative indices count from the end), and whether it is in range
PyPos(idx, n) == IF idx < 0 THEN idx + n ELSE idx
PyInRange(idx, n) == PyPos(idx, n) >= 0 /\ PyPos(idx, n) < n

\* the column of tVec read for bin j
TimeIndex(jj) == jj - 1

\* the test of events: M[i,j] != 0
KeepAll(v) == TRUE
KeepPositive(v) == v > 0
Keep(v) == v # 0

\* ----------------------------------------------------------------- state
VARIABLES pc, fr, tSim, nTrials, nBins, draws, rngCount, spikeMat,
          num_rows, num_cols, spikeMat_ft, tVec, i, j, events, E, result

vars == <<pc, fr, tSim, nTrials, nBins, draws, rngCount, spikeMat,
          num_rows, num_cols, spikeMat_ft, tVec, i, j, events, E, result>>

Init ==
    /\ pc = "start"
    /\ fr \in Rates
    /\ tSim \in 1..MaxTSim
    /\ nTrials \in 1..MaxTrials
    /\ nBins = 0
    /\ draws = <<>>
    /\ rngCount = 0
    /\ spikeMat = <<>>
    /\ num_rows = 0
    /\ num_cols = 0
    /\ spikeMat_ft = <<>>
    /\ tVec = <<>>
    /\ i = 0
    /\ j = 0
    /\ events = <<>>
    /\ E = <<>>
    /\ result = <<>>

\* dt = 1/1000 ; nBins = round(tSim/dt)
ComputeBins ==
    /\ pc = "start"
    /\ nBins' = Round(tSim, dt)
    /\ pc' = "draw"
    /\ UNCHANGED <<fr, tSim, nTrials, draws, rngCount, spikeMat, num_rows,
                   num_cols, spikeMat_ft, tVec, i, j, events, E, result>>

\* spikeMat = np.random.random([nTrials, nBins]) < fr*dt
DrawSpikeMat ==
    /\ pc = "draw"
    /\ \E u \in [0..(nTrials - 1) -> [0..(nBins - 1) -> DrawValues]] :
          /\ draws' = u
          /\ spikeMat' = [r \in 0..(nTrials - 1) |->
                            [c \in 0..(nBins - 1) |-> Fired(u[r][c], fr)]]
    /\ rngCount' = rngCount + DrawsTaken(nTrials, nBins)
    /\ pc' = "alloc"
    /\ UNCHANGED <<fr, tSim, nTrials, nBins, num_rows, num_cols,
                   spikeMat_ft, tVec, i, j, events, E, result>>

\* num_rows, num_cols = spikeMat.shape ; spikeMat_ft = np.zeros(...) ;
\* tVec = np.arange(0, tSim-dt, dt) ; entry of the loop nest
Alloc ==
    /\ pc = "alloc"
    /\ num_rows' = nTrials
    /\ num_cols' = nBins
    /\ spikeMat_ft' = [r \in 0..(nTrials - 1) |-> [c \in 0..(nBins - 1) |-> 0]]
    /\ tVec' = ARange(0, TVecStop(tSim), dt)
    /\ i' = 0
    /\ j' = 0
    /\ pc' = "fill"
    /\ UNCHANGED <<fr, tSim, nTrials, nBins, draws, rngCount, spikeMat,
                   events, E, result>>

TVecLen == Cardinality(DOMAIN tVec)

\* if spikeMat[i,j] == True: spikeMat_ft[i,j] = tVec[j-1]
FillSpike ==
    /\ pc = "fill"
    /\ i < num_rows
    /\ j < num_cols
    /\ spikeMat[i][j]
    /\ PyInRange(TimeIndex(j), TVecLen)
    /\ spikeMat_ft' = [spikeMat_ft EXCEPT
                         ![i][j] = tVec[PyPos(TimeIndex(j), TVecLen)]]
    /\ j' = j + 1
    /\ UNCHANGED <<pc, fr, tSim, nTrials, nBins, draws, rngCount, spikeMat,
                   num_rows, num_cols, tVec, i, events, E, result>>

\* the same statement when tVec[j-1] is out of range: IndexError
FillIndexError ==
    /\ pc = "fill"
    /\ i < num_rows
    /\ j < num_cols
    /\ spikeMat[i][j]
    /\ ~PyInRange(TimeIndex(j), TVecLen)
    /\ pc' = "error"
    /\ UNCHANGED <<fr, tSim, nTrials, nBins, draws, rngCount, spikeMat,
                   num_rows, num_cols, spikeMat_ft, tVec, i, j, events, E,
                   result>>

\* else: spikeMat_ft[i,j] = 0
FillZero ==
    /\ pc = "fill"
    /\ i < num_rows
    /\ j < num_cols
    /\ ~spikeMat[i][j]
    /\ spikeMat_ft' = [spikeMat_ft EXCEPT ![i][j] = 0]
    /\ j' = j + 1
    /\ UNCHANGED <<pc, fr, tSim, nTrials, nBins, draws, rngCount, spikeMat,
                   num_rows, num_cols, tVec, i, events, E, result>>

\* the inner range(num_cols) is exhausted: next i
FillRowEnd ==
    /\ pc = "fill"
    /\ i < num_rows
    /\ j = num_cols
    /\ i' = i + 1
    /\ j' = 0
    /\ UNCHANGED <<pc, fr, tSim, nTrials, nBins, draws, rngCount, spikeMat,
                   num_rows, num_cols, spikeMat_ft, tVec, events, E, result>>

\* the outer range(num_rows) is exhausted: call events(spikeMat_ft), whose
\* first statements are E = [] and, for row 0, events = []
FillDone ==
    /\ pc = "fill"
    /\ i = num_rows
    /\ pc' = "events"
    /\ i' = 0
    /\ j' = 0
    /\ E' = <<>>
    /\ events' = <<>>
    /\ UNCHANGED <<fr, tSim, nTrials, nBins, draws, rngCount, spikeMat,
                   num_rows, num_cols, spikeMat_ft, tVec, result>>

\* if M[i,j] != 0: events.append(M[i,j])
EventsAppend ==
    /\ pc = "events"
    /\ i < num_rows
    /\ j < num_cols
    /\ Keep(spikeMat_ft[i][j])
    /\ events' = Append(events, spikeMat_ft[i][j])
    /\ j' = j + 1
    /\ UNCHANGED <<pc, fr, tSim, nTrials, nBins, draws, rngCount, spikeMat,
                   num_rows, num_cols, spikeMat_ft, tVec, i, E, result>>

\* else: pass
EventsPass ==
    /\ pc = "events"
    /\ i < num_rows
    /\ j < num_cols
    /\ ~Keep(spikeMat_ft[i][j])
    /\ j' = j + 1
    /\ UNCHANGED <<pc, fr, tSim, nTrials, nBins, draws, rngCount, spikeMat,
                   num_rows, num_cols, spikeMat_ft, tVec, i, events, E,
                   result>>

\* E.append(events) ; next i, events being carried over to the next row
EventsRowEndNoReset ==
    /\ pc = "events"
    /\ i < num_rows
    /\ j = num_cols
    /\ E' = Append(E, events)
    /\ i' = i + 1
    /\ j' = 0
    /\ UNCHANGED <<pc, fr, tSim, nTrials, nBins, draws, rngCount, spikeMat,
                   num_rows, num_cols, spikeMat_ft, tVec, events, result>>

\* E.append(events) ; next i, whose first statement is events = []
EventsRowEnd ==
    /\ pc = "events"
    /\ i < num_rows
    /\ j = num_cols
    /\ E' = Append(E, events)
    /\ events' = <<>>
    /\ i' = i + 1
    /\ j' = 0
    /\ UNCHANGED <<pc, fr, tSim, nTrials, nBins, draws, rngCount, spikeMat,
                   num_rows, num_cols, spikeMat_ft, tVec, result>>

\* return E, which poissonSpikeGen returns in turn
Return ==
    /\ pc = "events"
    /\ i = num_rows
    /\ result' = E
    /\ pc' = "done"
    /\ UNCHANGED <<fr, tSim, nTrials, nBins, draws, rngCount, spikeMat,
                   num_rows, num_cols, spikeMat_ft, tVec, i, j, events, E>>

Next ==
    \/ ComputeBins
    \/ DrawSpikeMat
    \/ Alloc
    \/ FillSpike
    \/ FillIndexError
    \/ FillZero
    \/ FillRowEnd
    \/ FillDone
    \/ EventsAppend
    \/ EventsPass
    \/ EventsRowEnd
    \/ Return

Spec == Init /\ [][Next]_vars

\* A direct call events(M): M is any matrix of up to MaxRows x MaxCols
\* entries; the state is that of the entry of events (num_rows, num_cols =
\* M.shape ; E = [] ; i = 0 ; events = []), M being held in spikeMat_ft, the
\* argument of the only call in the notebook.  The locals of poissonSpikeGen
\* do not exist in such a call and keep their initial values.
MatrixEntries == {-dt, 0, dt}
InitEvents ==
    /\ pc = "events"
    /\ num_rows \in 0..MaxRows
    /\ num_cols \in 0..MaxCols
    /\ spikeMat_ft \in
          [0..(num_rows - 1) -> [0..(num_cols - 1) -> MatrixEntries]]
    /\ i = 0
    /\ j = 0
    /\ events = <<>>
    /\ E = <<>>
    /\ result = <<>>
    /\ fr = 0
    /\ tSim = 1
    /\ nTrials = 1
    /\ nBins = 0
    /\ draws = <<>>
    /\ rngCount = 0
    /\ spikeMat = <<>>
    /\ tVec = <<>>

NextEvents ==
    \/ EventsAppend
    \/ EventsPass
    \/ EventsRowEnd
    \/ Return

SpecEvents == InitEvents /\ [][NextEvents]_vars

\* ------------------------------------------------------ shared vocabulary
Trials == 0..(nTrials - 1)
Bins == 0..(nBins - 1)
Returned == pc = "done"
Raised == pc = "error"
\* train of trial r (result is a Python list, held as a 1-based sequence)
Train(r) == result[r + 1]
\* bins of trial r whose draw was below fr*dt
FiredBins(r) == {c \in Bins : draws[r][c] < fr * dt}

TypeOK ==
    /\ pc \in {"start", "draw", "alloc", "fill", "events", "done", "error"}
    /\ fr \in Rates
    /\ tSim \in 1..MaxTSim
    /\ nTrials \in 1..MaxTrials

Abs(x) == IF x < 0 THEN -x ELSE x
\* n is a/b rounded to the nearest integer, a tie going to the even one
IsRoundOf(n, a, b) ==
    \/ 2 * Abs(a - n * b) < b
    \/ 2 * Abs(a - n * b) = b /\ n % 2 = 0
\* the timestamps of the train of trial r, and the entries of row r
TrainSet(r) == {Train(r)[p] : p \in DOMAIN Train(r)}
RowSet(r) == {spikeMat_ft[r][c] : c \in Bins}

\* ----------------------------------------------------------------- claims

\* C1: for fr > 0, tSim > 0, nTrials >= 1 and every outcome of the draws,
\* every timestamp t of every returned train satisfies 0 <= t < tSim.
C1_TimestampsWithinDuration ==
    (Returned /\ fr > 0) =>
        \A r \in Trials : \A p \in DOMAIN Train(r) :
            0 <= Train(r)[p] /\ Train(r)[p] < tSim
\* a call with fr > 0 returned a train holding the last element of tVec
\* (the largest time the call can report) next to another timestamp
C1_Witness ==
    /\ Returned
    /\ fr > 0
    /\ \E r \in Trials :
          /\ Len(Train(r)) >= 2
          /\ tVec[TVecLen - 1] \in TrainSet(r)

\* C2: within each returned train the timestamps are in non-decreasing
\* order: train[p] <= train[q] for any two positions p < q.
C2_NonDecreasing ==
    Returned =>
        \A r \in Trials : \A p, q \in DOMAIN Train(r) :
            p < q => Train(r)[p] <= Train(r)[q]

\* C3: the length of the returned train of trial r equals the number of
\* bins of trial r whose draw is below fr*dt.
C3_OneSpikePerFiredBin ==
    Returned =>
        \A r \in Trials : Len(Train(r)) = Cardinality(FiredBins(r))

\* C4: when fr = 0 the call returns, and every returned train is empty,
\* for every duration, trial count and outcome of the draws.
C4_ZeroRateEmpty ==
    fr = 0 =>
        /\ ~Raised
        /\ Returned => \A r \in Trials : Train(r) = <<>>
\* a call with fr = 0 over several trials and bins, one draw being 0.0,
\* returned
C4_Witness ==
    /\ Returned
    /\ fr = 0
    /\ nTrials >= 2
    /\ nBins >= 3
    /\ \E r \in Trials : \E c \in Bins : draws[r][c] = 0

\* C5: the call returns exactly nTrials trains, train r being the one of
\* row r, and samples exactly nBins = round(tSim/dt) bins for each trial.
C5_TrialAndBinCounts ==
    Returned =>
        /\ Len(result) = nTrials
        /\ IsRoundOf(nBins, tSim, dt)
        /\ DOMAIN draws = Trials
        /\ \A r \in Trials :
              /\ DOMAIN draws[r] = Bins
              /\ TrainSet(r) = RowSet(r) \ {0}
\* a call over two or more trials whose tSim/dt lies exactly half way
\* between two integers returned, the rows of its matrix being different
C5_Witness ==
    /\ Returned
    /\ nTrials >= 2
    /\ (2 * tSim) % (2 * dt) = dt
    /\ nBins >= 2
    /\ Train(0) # Train(1)

\* C6: every timestamp of every returned train equals b*dt for some
\* integer b with 0 <= b < nBins.
C6_TimestampsOnBinGrid ==
    Returned =>
        \A r \in Trials : \A p \in DOMAIN Train(r) :
            \E b \in Bins : Train(r)[p] = b * dt
\* a returned train holds the timestamp of the last admissible bin index
C6_Witness ==
    /\ Returned
    /\ \E r \in Trials : \E p \in DOMAIN Train(r) :
          Train(r)[p] = (nBins - 1) * dt

\* C7: every timestamp of the train of trial r is the time assigned to a
\* bin of trial r whose draw was below fr*dt, and the bins that did not
\* fire contribute nothing: the train has no more entries than fired bins.
C7_OnlyFiredBins ==
    Returned =>
        \A r \in Trials :
            /\ \A p \in DOMAIN Train(r) :
                  \E c \in FiredBins(r) : Train(r)[p] = spikeMat_ft[r][c]
            /\ Len(Train(r)) <= Cardinality(FiredBins(r))
\* a returned trial in which some bins fired and some did not, with a
\* non-empty train
C7_Witness ==
    /\ Returned
    /\ \E r \in Trials :
          /\ FiredBins(r) # {}
          /\ FiredBins(r) # Bins
          /\ Len(Train(r)) >= 1

\* C8: when nBins = 1 and the single bin of a trial fires (as with fr=1000,
\* tSim=0.001, nTrials=1 and a draw of 0.0), the call returns and the train
\* of that trial holds exactly one spike.
C8_SingleBinOneSpike ==
    (pc \in {"done", "error"} /\ nBins = 1) =>
        \A r \in Trials :
            0 \in FiredBins(r) => (Returned /\ Len(Train(r)) = 1)

\* C9: for fr > 0, tSim > 0, nTrials >= 1 and every outcome of the draws
\* the call never ends in an error (no out-of-range index into tVec).
C9_NoError ==
    fr > 0 => ~Raised

\* C12: for every bin c >= 1 of a trial whose draw is below fr*dt, the
\* returned train of that trial contains the timestamp (c-1)*dt.
C12_SpikeOneBinEarlier ==
    Returned =>
        \A r \in Trials : \A c \in FiredBins(r) :
            c >= 1 => (c - 1) * dt \in TrainSet(r)

\* C13: when bin 0 of a trial produces a spike, the time assigned to that
\* spike is 0, for every nBins >= 1.
C13_BinZeroAtTimeZero ==
    (pc \in {"events", "done"} /\ nBins >= 1) =>
        \A r \in Trials : 0 \in FiredBins(r) => spikeMat_ft[r][0] = 0

\* the cells of spikeMat_ft that hold an assigned timestamp
AssignedCells ==
    {rc \in (DOMAIN spikeMat_ft) \X Bins : spikeMat_ft[rc[1]][rc[2]] # 0}

\* C14: one call takes exactly nTrials * nBins draws, one per (trial, bin)
\* cell, each draw deciding the cell it was taken for, and all of them are
\* taken before any timestamp is assigned.
C14_OneDrawPerCell ==
    /\ pc \in {"start", "draw"} =>
          /\ rngCount = 0
          /\ AssignedCells = {}
    /\ pc \notin {"start", "draw"} =>
          /\ rngCount = nTrials * nBins
          /\ rngCount = Cardinality(Trials \X Bins)
          /\ DOMAIN draws = Trials
          /\ \A r \in Trials :
                /\ DOMAIN draws[r] = Bins
                /\ \A c \in Bins : spikeMat[r][c] <=> (draws[r][c] < fr * dt)
    /\ AssignedCells # {} => rngCount = nTrials * nBins
\* a call over several trials and bins that has taken its draws and is
\* part way through assigning timestamps
C14_Witness ==
    /\ pc = "fill"
    /\ nTrials >= 2
    /\ nBins >= 3
    /\ i = 1
    /\ AssignedCells # {}
    /\ rngCount = nTrials * nBins

\* the columns of a row that hold an entry different from 0, and the
\* position such a column has among them (1 for the leftmost)
NonZeroCols(row) == {c \in DOMAIN row : row[c] # 0}
Rank(row, c) == Cardinality({d \in NonZeroCols(row) : d < c}) + 1

\* C15: events(M) returns one list per row of M, in row order; list r holds
\* exactly the entries of row r that differ from 0, in increasing column
\* order; and no step of events changes M.
C15_EventsNonZeroEntries ==
    /\ [](Returned =>
            /\ Len(result) = num_rows
            /\ \A r \in 0..(num_rows - 1) :
                  /\ Len(result[r + 1]) =
                        Cardinality(NonZeroCols(spikeMat_ft[r]))
                  /\ \A c \in NonZeroCols(spikeMat_ft[r]) :
                        result[r + 1][Rank(spikeMat_ft[r], c)] =
                            spikeMat_ft[r][c])
    /\ [][spikeMat_ft' = spikeMat_ft]_vars
\* events returned for a two-row matrix whose rows differ, one of them
\* holding a zero between a positive and a negative entry
C15_Witness ==
    /\ Returned
    /\ num_rows = 2
    /\ num_cols = 3
    /\ spikeMat_ft[0] # spikeMat_ft[1]
    /\ spikeMat_ft[1][0] = dt
    /\ spikeMat_ft[1][1] = 0
    /\ spikeMat_ft[1][2] = -dt
    /\ result[2] = <<dt, -dt>>

TimeVectorLength == IF tSim > dt THEN Ceil(tSim - dt, dt) ELSE 0
BinTime(c) == IF c = 0 THEN (TimeVectorLength - 1) * dt ELSE (c - 1) * dt
ReportedBins(row) ==
    {c \in DOMAIN row : row[c] < fr * dt /\ BinTime(c) # 0}
IsTrainOfRow(t, row) ==
    /\ Len(t) = Cardinality(ReportedBins(row))
    /\ \A c \in ReportedBins(row) :
          t[Cardinality({d \in ReportedBins(row) : d < c}) + 1] = BinTime(c)

\* C17: the train returned for trial r is a function of fr, tSim and the
\* draws of row r only: it is the train those draws determine whatever the
\* draws of the other trials are, and two trials of one call with the same
\* draws have the same train.
C17_TrialsIndependent ==
    Returned =>
        /\ \A r \in Trials : IsTrainOfRow(Train(r), draws[r])
        /\ \A r, s \in Trials : draws[r] = draws[s] => Train(r) = Train(s)
\* a returned call of two trials with different draws and different,
\* non-empty trains
C17_Witness ==
    /\ Returned
    /\ nTrials >= 2
    /\ draws[0] # draws[1]
    /\ Train(0) # <<>>
    /\ Train(1) # <<>>
    /\ Train(0) # Train(1)

====
